---- MODULE Spec2Model ----
(***************************************************************************)
(* Model of python/speakap.py: the signed-request canonicalisation         *)
(* (signed_request), the signature validation (API.validate_signature)     *)
(* and the REST verbs of the API wrapper (get, post, post_action, put,     *)
(* delete, _request, _handle_response).                                    *)
(*                                                                         *)
(* Python byte strings are sequences of one-character strings, so that     *)
(* quoting, sorting and joining are computed character by character.       *)
(***************************************************************************)
EXTENDS Integers, Sequences, FiniteSets, TLC

VARIABLES self, params, call, wire

vars == <<self, params, call, wire>>

(***************************************************************************)
(* Bounds of the model.                                                    *)
(***************************************************************************)
\* utcnow() ranges over 0..MaxClock seconds after 2023-01-01T00:00:00 UTC
MaxClock == 62
\* number of requests the transport log keeps track of
MaxRequests == 2

(***************************************************************************)
(* Characters and byte strings.                                            *)
(***************************************************************************)
Ascii ==
    << " ", "!", "\"", "#", "$", "%", "&", "'", "(", ")", "*", "+", ",", "-", ".", "/",
       "0", "1", "2", "3", "4", "5", "6", "7", "8", "9", ":", ";", "<", "=", ">", "?",
       "@", "A", "B", "C", "D", "E", "F", "G", "H", "I", "J", "K", "L", "M", "N", "O",
       "P", "Q", "R", "S", "T", "U", "V", "W", "X", "Y", "Z", "[", "\\", "]", "^", "_",
       "\\140", "a", "b", "c", "d", "e", "f", "g", "h", "i", "j", "k", "l", "m", "n", "o",
       "p", "q", "r", "s", "t", "u", "v", "w", "x", "y", "z", "{", "|", "}", "~" >>

\* (the grave accent, code 96, is written "\\140": it occurs in no string of the model)
AsciiChars == { Ascii[i] : i \in 1..Len(Ascii) }

\* ord(c) of a printable character
OrdTable == [ c \in AsciiChars |-> 31 + CHOOSE i \in 1..Len(Ascii) : Ascii[i] = c ]

Ord(c) == OrdTable[c]

Chr(n) == Ascii[n - 31]

HexDigits == << "0", "1", "2", "3", "4", "5", "6", "7",
                "8", "9", "A", "B", "C", "D", "E", "F" >>

RECURSIVE Concat(_)
\* "".join(parts)
Concat(parts) ==
    IF parts = << >> THEN << >> ELSE Head(parts) \o Concat(Tail(parts))

RECURSIVE Join(_, _)
\* sep.join(parts)
Join(sep, parts) ==
    IF parts = << >> THEN << >>
    ELSE IF Len(parts) = 1 THEN Head(parts)
    ELSE Head(parts) \o sep \o Join(sep, Tail(parts))

RECURSIVE StrLess(_, _)
\* s < t for byte strings: byte-wise lexicographic order
StrLess(s, t) ==
    IF t = << >> THEN FALSE
    ELSE IF s = << >> THEN TRUE
    ELSE IF Head(s) = Head(t) THEN StrLess(Tail(s), Tail(t))
    ELSE Ord(Head(s)) < Ord(Head(t))

(***************************************************************************)
(* urllib.quote(s, safe): letters, digits, "_", "." and "-" and the        *)
(* characters of safe are kept, every other byte becomes %XX (upper case). *)
(***************************************************************************)
IsAlwaysSafe(c) ==
    LET n == Ord(c) IN
        \/ n >= 48 /\ n <= 57
        \/ n >= 65 /\ n <= 90
        \/ n >= 97 /\ n <= 122
        \/ c \in {"_", ".", "-"}

PercentEscape(c) ==
    << "%", HexDigits[(Ord(c) \div 16) + 1], HexDigits[(Ord(c) % 16) + 1] >>

QuoteChar(c, safe) ==
    IF IsAlwaysSafe(c) \/ c \in safe THEN << c >> ELSE PercentEscape(c)

quote(s, safe) == Concat([ i \in 1..Len(s) |-> QuoteChar(s[i], safe) ])

\* the safe characters both callers pass: quote(key, "~")
TildeSafe == {"~"}

(***************************************************************************)
(* list.sort() on a list of byte strings (insertion sort; the result of    *)
(* any correct sort of distinct keys is the same list).                    *)
(***************************************************************************)
RECURSIVE Insert(_, _)
Insert(k, sorted) ==
    IF sorted = << >> THEN << k >>
    ELSE IF StrLess(k, Head(sorted)) THEN << k >> \o sorted
    ELSE << Head(sorted) >> \o Insert(k, Tail(sorted))

\* variant: the keys stay in the order the dict lists them
Unsorted(keys) == keys

RECURSIVE Sort(_)
Sort(keys) ==
    IF keys = << >> THEN << >> ELSE Insert(Head(keys), Sort(Tail(keys)))

\* list.remove(x): drops the first occurrence of x
Remove(keys, x) ==
    LET i == CHOOSE j \in 1..Len(keys) : keys[j] = x /\ \A h \in 1..(j - 1) : keys[h] # x
    IN  SubSeq(keys, 1, i - 1) \o SubSeq(keys, i + 1, Len(keys))

Contains(keys, x) == \E i \in 1..Len(keys) : keys[i] = x

(***************************************************************************)
(* Parameter names.                                                        *)
(***************************************************************************)
SignatureKey == << "s", "i", "g", "n", "a", "t", "u", "r", "e" >>

IssuedAtKey == << "i", "s", "s", "u", "e", "d", "A", "t" >>

\* "k=v" of one parameter, both sides quoted with "~" left as it is
QuotedPair(p, key) == quote(key, TildeSafe) \o << "=" >> \o quote(p[key], TildeSafe)

(***************************************************************************)
(* signed_request(params).  keys is params.keys(): the keys of the dict in *)
(* the arbitrary order the dict iterates them.                             *)
(***************************************************************************)
\* variant: "signature" is sorted with the other keys
SignedRequestKeysAllSorted(keys) == Sort(keys)

SignedRequestKeys(keys) ==
    LET has_signature == Contains(keys, SignatureKey)
        rest == IF has_signature THEN Remove(keys, SignatureKey) ELSE keys
        sorted == Sort(rest)
    IN  IF has_signature THEN Append(sorted, SignatureKey) ELSE sorted

signed_request(p, keys) ==
    LET order == SignedRequestKeys(keys)
    IN  Join(<< "&" >>, [ i \in 1..Len(order) |-> QuotedPair(p, order[i]) ])

(***************************************************************************)
(* base64.b64encode(hmac.new(key, msg, hashlib.sha256).hexdigest()).       *)
(* HMAC-SHA256 is taken as an ideal, collision-free MAC: the digest of     *)
(* (key, msg) is written as the text key|msg, which distinct (key, msg)    *)
(* pairs never share as long as no key contains "|".  The base64 layer is  *)
(* computed byte by byte.                                                  *)
(***************************************************************************)
hmac_hexdigest(key, msg) == key \o << "|" >> \o msg

B64Char(i) ==
    IF i < 26 THEN Chr(65 + i)
    ELSE IF i < 52 THEN Chr(97 + i - 26)
    ELSE IF i < 62 THEN Chr(48 + i - 52)
    ELSE IF i = 62 THEN "+" ELSE "/"

RECURSIVE b64encode(_)
b64encode(s) ==
    IF s = << >> THEN << >>
    ELSE LET b1 == Ord(s[1]) IN
      IF Len(s) = 1
      THEN << B64Char(b1 \div 4), B64Char((b1 % 4) * 16), "=", "=" >>
      ELSE LET b2 == Ord(s[2]) IN
        IF Len(s) = 2
        THEN << B64Char(b1 \div 4), B64Char((b1 % 4) * 16 + b2 \div 16),
                B64Char((b2 % 16) * 4), "=" >>
        ELSE LET b3 == Ord(s[3]) IN
             << B64Char(b1 \div 4), B64Char((b1 % 4) * 16 + b2 \div 16),
                B64Char((b2 % 16) * 4 + b3 \div 64), B64Char(b3 % 64) >>
             \o b64encode(SubSeq(s, 4, Len(s)))

(***************************************************************************)
(* Dates.  A naive datetime is its number of seconds since                 *)
(* 2023-01-01T00:00:00; an aware one also has its UTC offset in minutes.   *)
(***************************************************************************)
SIGNATURE_WINDOW_SIZE == 1

IsDigit(c) == Ord(c) >= 48 /\ Ord(c) <= 57

AllDigits(s, from, to) == \A i \in from..to : IsDigit(s[i])

RECURSIVE Number(_, _, _)
\* int(s[from..to])
Number(s, from, to) ==
    IF to < from THEN 0
    ELSE 10 * Number(s, from, to - 1) + (Ord(s[to]) - 48)

IsLeap(y) == y % 4 = 0 /\ (y % 100 # 0 \/ y % 400 = 0)

DaysBeforeMonth == << 0, 31, 59, 90, 120, 151, 181, 212, 243, 273, 304, 334 >>

\* datetime.toordinal(): days since 0001-01-01, that day being 1
Ymd2Ord(y, m, d) ==
    (y - 1) * 365 + (y - 1) \div 4 - (y - 1) \div 100 + (y - 1) \div 400
    + DaysBeforeMonth[m] + (IF m > 2 /\ IsLeap(y) THEN 1 ELSE 0) + d

EpochOrdinal == Ymd2Ord(2023, 1, 1)

ParseError == [ ok |-> FALSE, wall |-> 0, utcoffset |-> 0 ]

\* The UTC offset of the text after the seconds: "", "Z", "+HH:MM" or "-HH:MM"
ParseTimezone(tz) ==
    IF tz = << >> \/ tz = << "Z" >> THEN [ ok |-> TRUE, minutes |-> 0 ]
    ELSE IF /\ Len(tz) = 6
            /\ tz[1] \in {"+", "-"}
            /\ AllDigits(tz, 2, 3)
            /\ tz[4] = ":"
            /\ AllDigits(tz, 5, 6)
    THEN LET m == Number(tz, 2, 3) * 60 + Number(tz, 5, 6)
         IN  [ ok |-> TRUE, minutes |-> IF tz[1] = "-" THEN 0 - m ELSE m ]
    ELSE [ ok |-> FALSE, minutes |-> 0 ]

(***************************************************************************)
(* iso8601.parse_date(s) on the layouts YYYY-MM-DD(T| )HH:MM:SS followed   *)
(* by nothing, Z or a +HH:MM / -HH:MM offset; a string that does not start *)
(* with a four-digit year is a ParseError.  The result keeps the wall      *)
(* clock fields as written and the offset as tzinfo.                       *)
(***************************************************************************)
parse_date(s) ==
    IF /\ Len(s) >= 19
       /\ AllDigits(s, 1, 4) /\ s[5] = "-"
       /\ AllDigits(s, 6, 7) /\ s[8] = "-"
       /\ AllDigits(s, 9, 10) /\ s[11] \in {"T", " "}
       /\ AllDigits(s, 12, 13) /\ s[14] = ":"
       /\ AllDigits(s, 15, 16) /\ s[17] = ":"
       /\ AllDigits(s, 18, 19)
       /\ ParseTimezone(SubSeq(s, 20, Len(s))).ok
    THEN [ ok |-> TRUE,
           wall |-> (Ymd2Ord(Number(s, 1, 4), Number(s, 6, 7), Number(s, 9, 10))
                        - EpochOrdinal) * 86400
                    + Number(s, 12, 13) * 3600 + Number(s, 15, 16) * 60
                    + Number(s, 18, 19),
           utcoffset |-> ParseTimezone(SubSeq(s, 20, Len(s))).minutes ]
    ELSE ParseError

\* issued_at + timedelta(minutes=SIGNATURE_WINDOW_SIZE)
AddWindow(dt) == [ dt EXCEPT !.wall = @ + 60 * SIGNATURE_WINDOW_SIZE ]

\* dt.replace(tzinfo=None): the wall clock fields, the offset dropped
ReplaceTzinfoNone(dt) == dt.wall

\* variant: the last second of the window counts as expired (>= for >)
IsExpiredInclusive(utcnow, expires_at) == utcnow >= ReplaceTzinfoNone(expires_at)

\* datetime.utcnow() > expires_at.replace(tzinfo=None)
IsExpired(utcnow, expires_at) == utcnow > ReplaceTzinfoNone(expires_at)

(***************************************************************************)
(* Outcome of a call: the exception raised ("None" when the call returns)  *)
(* with its message, a fixed text followed by an appended byte string, and *)
(* the statements of the method that ran before it ended, and the local    *)
(* query_string (empty until it is computed).                              *)
(***************************************************************************)
Outcome(raised, text, appended, steps) ==
    [ raised |-> raised, msg |-> << text, appended >>, steps |-> steps,
      query_string |-> << >> ]

MissingSignatureText == "Parameters did not include a signature"

InvalidSignatureText == "Invalid signature: "

ExpiredSignatureText == "Expired signature"

\* raise SignatureValidationError("Invalid signature: " + query_string)
InvalidSignatureError(query_string, steps) ==
    [ Outcome("SignatureValidationError", InvalidSignatureText, query_string, steps)
        EXCEPT !.query_string = query_string ]

\* variant: issuedAt is left out of the hashed string as well
ValidatedKeysWithoutIssuedAt(keys) ==
    SelectSeq(Sort(keys), LAMBDA key : key # SignatureKey /\ key # IssuedAtKey)

\* the generator of validate_signature: every sorted key but "signature"
ValidatedKeys(keys) == SelectSeq(Sort(keys), LAMBDA key : key # SignatureKey)

\* query_string of validate_signature
ValidateQueryString(p, keys) ==
    LET order == ValidatedKeys(keys)
    IN  Join(<< "&" >>, [ i \in 1..Len(order) |-> QuotedPair(p, order[i]) ])

\* variant: params.get("signature", "") in place of the membership test
signature_check_with_default(p, keys, app_secret) ==
    LET signature == IF SignatureKey \in DOMAIN p THEN p[SignatureKey] ELSE << >>
        query_string == ValidateQueryString(p, keys)
        computed_hash == b64encode(hmac_hexdigest(app_secret, query_string))
        steps == << "lookup", "query_string", "computed_hash", "compare" >>
    IN  IF computed_hash # signature
        THEN InvalidSignatureError(query_string, steps)
        ELSE [ Outcome("None", "", << >>, steps) EXCEPT !.query_string = query_string ]

(***************************************************************************)
(* validate_signature, first half: the signature lookup, the canonical     *)
(* string, the hash and the comparison.                                    *)
(***************************************************************************)
signature_check(p, keys, app_secret) ==
    IF SignatureKey \notin DOMAIN p
    THEN Outcome("SignatureValidationError", MissingSignatureText, << >>,
                 << "lookup" >>)
    ELSE LET signature == p[SignatureKey]
             query_string == ValidateQueryString(p, keys)
             computed_hash == b64encode(hmac_hexdigest(app_secret, query_string))
             steps == << "lookup", "query_string", "computed_hash", "compare" >>
         IN  IF computed_hash # signature
             THEN InvalidSignatureError(query_string, steps)
             ELSE [ Outcome("None", "", << >>, steps)
                        EXCEPT !.query_string = query_string ]

(***************************************************************************)
(* validate_signature, second half: issuedAt and the expiry.  params       *)
(* ["issuedAt"] of a missing key raises KeyError and parse_date raises     *)
(* iso8601.ParseError; neither is caught.                                  *)
(***************************************************************************)
freshness_check(p, utcnow, steps) ==
    IF IssuedAtKey \notin DOMAIN p
    THEN Outcome("KeyError", "issuedAt", << >>, steps \o << "issuedAt" >>)
    ELSE LET issued_at == parse_date(p[IssuedAtKey]) IN
         IF ~issued_at.ok
         THEN Outcome("ParseError", "Unable to parse date string ", p[IssuedAtKey],
                      steps \o << "issuedAt", "parse_date" >>)
         ELSE LET expires_at == AddWindow(issued_at)
                  done == steps \o << "issuedAt", "parse_date", "expires_at", "utcnow" >>
              IN  IF IsExpired(utcnow, expires_at)
                  THEN Outcome("SignatureValidationError", ExpiredSignatureText,
                               << >>, done)
                  ELSE Outcome("None", "", << >>, done)

\* variant: issuedAt and the expiry are looked at before the comparison of
\* the signatures
finish_validation_freshness_first(checked, p, utcnow) ==
    IF checked.steps = << "lookup" >> THEN checked
    ELSE LET fresh == [ freshness_check(p, utcnow, checked.steps)
                          EXCEPT !.query_string = checked.query_string ]
         IN  IF fresh.raised # "None" THEN fresh ELSE checked

\* the whole method, given the outcome of its first half
finish_validation(checked, p, utcnow) ==
    IF checked.raised # "None" THEN checked
    ELSE [ freshness_check(p, utcnow, checked.steps)
             EXCEPT !.query_string = checked.query_string ]

(***************************************************************************)
(* State.                                                                  *)
(*   self    the API object: the fields __init__ sets                      *)
(*   params  the dict of POST parameters the caller holds                  *)
(*   call    the last call made and how it ended                           *)
(*   wire    the requests dispatched through the transport, oldest first   *)
(***************************************************************************)
EmptyDict == [ key \in {} |-> << >> ]

Without(p, key) == [ k \in DOMAIN p \ {key} |-> p[k] ]

\* params[key] = value
SetItem(p, key, value) == [ k \in DOMAIN p \cup {key} |-> IF k = key THEN value ELSE p[k] ]

\* the orders in which params.keys() may list the keys of the dict
KeyOrders(p) ==
    LET n == Cardinality(DOMAIN p)
    IN  { ks \in [ 1..n -> DOMAIN p ] : \A i, j \in 1..n : ks[i] = ks[j] => i = j }

\* Python None, also what json.loads gives for the JSON text null
NoJson ==
    [ kind |-> "None", has_code |-> FALSE, code |-> 0,
      has_message |-> FALSE, message |-> "", other |-> "" ]

NoData == [ kind |-> "None", items |-> "" ]

Idle ==
    [ op |-> "idle", now |-> 0, raised |-> "None", msg |-> << "", << >> >>,
      steps |-> << >>, query_string |-> << >>, value |-> << >>,
      path |-> "", data |-> NoData, sent |-> 0,
      status |-> 0, body |-> "", result |-> NoJson, error |-> NoJson ]

\* the seconds of utcnow() a call may be made at: the start, the middle, the
\* three seconds around the end of the window, and the last second in range
WindowSeconds == 60 * SIGNATURE_WINDOW_SIZE

Clock == { 0, WindowSeconds \div 2, WindowSeconds - 1, WindowSeconds,
           WindowSeconds + 1, MaxClock }

KeyA == << "a" >>

KeyZ == << "z" >>

ParamKeys == { KeyA, KeyZ, SignatureKey, IssuedAtKey }

IssuedAtUtc ==
    << "2", "0", "2", "3", "-", "0", "1", "-", "0", "1", "T",
       "0", "0", ":", "0", "0", ":", "0", "0", "Z" >>

IssuedAtOffset ==
    << "2", "0", "2", "3", "-", "0", "1", "-", "0", "1", "T",
       "0", "0", ":", "0", "0", ":", "0", "0", "+", "0", "1", ":", "0", "0" >>

IssuedAtGarbage == << "x" >>

\* the values a caller may store under each key
ParamValues(key) ==
    IF key = IssuedAtKey THEN { IssuedAtUtc, IssuedAtOffset, IssuedAtGarbage }
    ELSE IF key = SignatureKey THEN { << "s" >> }
    ELSE IF key = KeyA THEN { << "1" >>, << "~", "&", "=" >> }
    ELSE { << "1" >> }

Secrets == { << "k" >> }

AppIds == { << "7" >> }

Configs ==
    [ scheme : { "https" }, hostname : { "api.speakap.io" },
      app_id : AppIds, app_secret : Secrets ]

\* API.__init__(config)
API_init(config) ==
    [ scheme |-> config.scheme,
      hostname |-> config.hostname,
      app_id |-> config.app_id,
      app_secret |-> config.app_secret,
      access_token |-> config.app_id \o << "_" >> \o config.app_secret ]

Init ==
    /\ self \in { API_init(config) : config \in Configs }
    /\ params = EmptyDict
    /\ call = Idle
    /\ wire = << >>

(***************************************************************************)
(* The caller and the platform build the parameters of a signed request.   *)
(***************************************************************************)
SetParam(key, value) ==
    /\ params' = SetItem(params, key, value)
    /\ call' = Idle
    /\ UNCHANGED << self, wire >>

DelParam(key) ==
    /\ key \in DOMAIN params
    /\ params' = Without(params, key)
    /\ call' = Idle
    /\ UNCHANGED << self, wire >>

\* The signature the platform puts on a set of parameters: the hash of the
\* canonical string of every parameter but "signature", under the app secret.
Sign(p, secret) ==
    LET unsigned == Without(p, SignatureKey)
    IN  b64encode(hmac_hexdigest(secret,
            signed_request(unsigned, CHOOSE ks \in KeyOrders(unsigned) : TRUE)))

PlatformSign ==
    /\ params' = SetItem(params, SignatureKey, Sign(params, self.app_secret))
    /\ call' = Idle
    /\ UNCHANGED << self, wire >>

(***************************************************************************)
(* The calls.                                                              *)
(***************************************************************************)
SignedRequest ==
    /\ call = Idle
    /\ \E keys \in KeyOrders(params) :
          call' = [ Idle EXCEPT !.op = "signed_request",
                                !.value = signed_request(params, keys) ]
    /\ UNCHANGED << self, params, wire >>

ValidateSignature ==
    /\ call = Idle
    /\ \E keys \in KeyOrders(params) :
          LET checked == signature_check(params, keys, self.app_secret) IN
          \E utcnow \in Clock :
              LET outcome == finish_validation(checked, params, utcnow) IN
              call' = [ Idle EXCEPT !.op = "validate_signature",
                                    !.now = utcnow,
                                    !.raised = outcome.raised,
                                    !.msg = outcome.msg,
                                    !.steps = outcome.steps,
                                    !.query_string = outcome.query_string ]
    /\ UNCHANGED << self, params, wire >>

(***************************************************************************)
(* The REST verbs.  Objects handed to post, put and post_action are None   *)
(* or a dict, known by the text of its items; the reply of the server is   *)
(* a status and a body.                                                    *)
(***************************************************************************)
Paths == { "/networks/1/messages/" }

DataObjects ==
    { NoData, [ kind |-> "dict", items |-> "" ],
      [ kind |-> "dict", items |-> "body=test 123" ] }

\* bool(data): None and the empty dict are false
Truthy(data) == data.kind = "dict" /\ data.items # ""

\* json.dumps(data)
json_dumps(data) ==
    IF data.kind = "None" THEN "null"
    ELSE IF data.items = "" THEN "{}"
    ELSE "{\"body\": \"test 123\"}"

Statuses == { 199, 200, 299, 300, 404 }

Bodies ==
    { "{\"EID\": \"1\"}", "{\"code\": 7, \"message\": \"Not found\"}",
      "null", "[]", "<html>" }

JsonDict(has_code, code, has_message, message, other) ==
    [ kind |-> "dict", has_code |-> has_code, code |-> code,
      has_message |-> has_message, message |-> message, other |-> other ]

\* json.loads(body): the decoded value, or ok = FALSE when it raises ValueError
json_loads(body) ==
    IF body = "{\"EID\": \"1\"}"
    THEN [ ok |-> TRUE, value |-> JsonDict(FALSE, 0, FALSE, "", "EID=1") ]
    ELSE IF body = "{\"code\": 7, \"message\": \"Not found\"}"
    THEN [ ok |-> TRUE, value |-> JsonDict(TRUE, 7, TRUE, "Not found", "") ]
    ELSE IF body = "null"
    THEN [ ok |-> TRUE, value |-> NoJson ]
    ELSE IF body = "[]"
    THEN [ ok |-> TRUE, value |-> [ NoJson EXCEPT !.kind = "list" ] ]
    ELSE [ ok |-> FALSE, value |-> NoJson ]

UnexpectedReply == JsonDict(TRUE, -1001, TRUE, "Unexpected Reply", "")

Reply(raised, text, result, error) ==
    [ raised |-> raised, msg |-> << text, << >> >>, result |-> result, error |-> error ]

(***************************************************************************)
(* _handle_response((status, data)).  json_result["code"] of a value that  *)
(* is no dict raises TypeError, of a dict without the key KeyError.        *)
(***************************************************************************)
handle_response(status0, data) ==
    LET decoded == json_loads(data)
        status == IF decoded.ok THEN status0 ELSE 400
        json_result == IF decoded.ok THEN decoded.value ELSE UnexpectedReply
    IN  IF status >= 200 /\ status < 300
        THEN Reply("None", "", json_result, NoJson)
        ELSE IF json_result.kind # "dict"
        THEN Reply("TypeError", "code", NoJson, NoJson)
        ELSE IF ~json_result.has_code
        THEN Reply("KeyError", "code", NoJson, NoJson)
        ELSE IF ~json_result.has_message
        THEN Reply("KeyError", "message", NoJson, NoJson)
        ELSE Reply("None", "", NoJson,
                   JsonDict(TRUE, json_result.code, TRUE, json_result.message, ""))

BearerPrefix == << "B", "e", "a", "r", "e", "r", " " >>

\* headers = {"Authorization": "Bearer " + self.access_token}
AuthHeaders(api) == [ Authorization |-> BearerPrefix \o api.access_token ]

\* the channel _request uses: App Engine's urlfetch when it was imported,
\* else a httplib connection chosen by the scheme
Channel(api, urlfetch) ==
    IF urlfetch THEN "urlfetch"
    ELSE IF api.scheme = "https" THEN "HTTPSConnection" ELSE "HTTPConnection"

\* the request _request(method, path, data) hands to the transport
Request(api, urlfetch, method, path, data) ==
    [ channel |-> Channel(api, urlfetch), method |-> method, path |-> path,
      payload |-> data, headers |-> AuthHeaders(api) ]

Responses == Statuses \X Bodies

\* what a verb returns after _request and _handle_response: the call, the
\* response it got and the pair (or the exception) of _handle_response
Returned(op, path, data, response) ==
    LET reply == handle_response(response[1], response[2])
    IN  [ Idle EXCEPT !.op = op, !.path = path, !.data = data, !.sent = 1,
                      !.status = response[1], !.body = response[2],
                      !.raised = reply.raised, !.msg = reply.msg,
                      !.result = reply.result, !.error = reply.error ]

\* a verb that raises before it reaches the transport
Raised(op, path, data, raised, text) ==
    [ Idle EXCEPT !.op = op, !.path = path, !.data = data,
                  !.raised = raised, !.msg = << text, << >> >> ]

(***************************************************************************)
(* The verbs.  One that reaches _request hands one request to the          *)
(* transport, the server answers (status, body), and _handle_response      *)
(* turns the answer into what the verb returns.                            *)
(***************************************************************************)
Delete(path) ==
    /\ Len(wire) < MaxRequests
    /\ \E urlfetch \in BOOLEAN, response \in Responses :
          /\ wire' = Append(wire, Request(self, urlfetch, "DELETE", path, "None"))
          /\ call' = Returned("delete", path, NoData, response)
    /\ UNCHANGED << self, params >>

Get(path) ==
    /\ Len(wire) < MaxRequests
    /\ \E urlfetch \in BOOLEAN, response \in Responses :
          /\ wire' = Append(wire, Request(self, urlfetch, "GET", path, "None"))
          /\ call' = Returned("get", path, NoData, response)
    /\ UNCHANGED << self, params >>

Post(path, data) ==
    /\ Len(wire) < MaxRequests
    /\ \E urlfetch \in BOOLEAN, response \in Responses :
          /\ wire' = Append(wire, Request(self, urlfetch, "POST", path, json_dumps(data)))
          /\ call' = Returned("post", path, data, response)
    /\ UNCHANGED << self, params >>

\* urllib.urlencode(data) if data else None: the module urllib is not bound
\* (only quote is imported from it), so a non-empty data raises NameError
PostAction(path, data) ==
    IF Truthy(data)
    THEN /\ call' = Raised("post_action", path, data, "NameError", "urllib")
         /\ UNCHANGED << self, params, wire >>
    ELSE /\ Len(wire) < MaxRequests
         /\ \E urlfetch \in BOOLEAN, response \in Responses :
               /\ wire' = Append(wire, Request(self, urlfetch, "POST", path, "None"))
               /\ call' = Returned("post_action", path, data, response)
         /\ UNCHANGED << self, params >>

\* self._create_connection is no attribute of API: AttributeError
Put(path, data) ==
    /\ call' = Raised("put", path, data, "AttributeError", "_create_connection")
    /\ UNCHANGED << self, params, wire >>

ApiNext ==
    \/ \E path \in Paths : Delete(path)
    \/ \E path \in Paths : Get(path)
    \/ \E path \in Paths, data \in DataObjects : Post(path, data)
    \/ \E path \in Paths, data \in DataObjects : PostAction(path, data)
    \/ \E path \in Paths, data \in DataObjects : Put(path, data)

Next ==
    \/ \E key \in ParamKeys : \E value \in ParamValues(key) : SetParam(key, value)
    \/ \E key \in ParamKeys : DelParam(key)
    \/ PlatformSign
    \/ SignedRequest
    \/ ValidateSignature

\* the signed-request side: building parameters, signed_request, validate_signature
Spec == Init /\ [][Next]_vars

\* the REST side: the five verbs
ApiSpec == Init /\ [][ApiNext]_vars

(***************************************************************************)
(* Vocabulary of the properties.                                           *)
(***************************************************************************)
Validated == call.op = "validate_signature"

HasSignature == SignatureKey \in DOMAIN params

HasIssuedAt == IssuedAtKey \in DOMAIN params

SomeOrder(p) == CHOOSE ks \in KeyOrders(p) : TRUE

\* the canonical string of p: every key but "signature", as signed_request
\* serialises them
Canonical(p) == signed_request(Without(p, SignatureKey), SomeOrder(Without(p, SignatureKey)))

\* the signature in params is the one recomputed over all other keys
SignatureMatches ==
    HasSignature /\ params[SignatureKey] = Sign(params, self.app_secret)

IssuedAt == parse_date(params[IssuedAtKey])

\* the UTC instant issuedAt denotes, in seconds
IssuedUtc == IssuedAt.wall - 60 * IssuedAt.utcoffset

Succeeded == call.raised = "None"

IsValidationError == call.raised = "SignatureValidationError"

IsMissingSignature == IsValidationError /\ call.msg[1] = MissingSignatureText

IsInvalidSignature == IsValidationError /\ call.msg[1] = InvalidSignatureText

IsExpiredSignature == IsValidationError /\ call.msg[1] = ExpiredSignatureText

\* validate_signature accepts the parameters p at time utcnow
Accepts(p, utcnow) ==
    finish_validation(signature_check(p, SomeOrder(p), self.app_secret),
                      p, utcnow).raised = "None"

(***************************************************************************)
(* C1                                                                      *)
(***************************************************************************)
\* C1, as stated: the signature is computed over the parameters before
\* issuedAt is added; with issuedAt the UTC timestamp of an instant T and the
\* call made within the minute after T, validation succeeds.
C1_RoundTripSignedBeforeIssuedAt ==
    ( /\ Validated /\ HasSignature /\ HasIssuedAt
      /\ IssuedAt.ok /\ IssuedAt.utcoffset = 0
      /\ params[SignatureKey] = Sign(Without(params, IssuedAtKey), self.app_secret)
      /\ call.now >= IssuedUtc /\ call.now <= IssuedUtc + WindowSeconds )
    => Succeeded

\* C1, amended: when the signature is the one computed over all parameters
\* other than signature, issuedAt included, and issuedAt is the UTC timestamp
\* of an instant T, validation succeeds at every time up to T + 1 minute.
C1_RoundTrip ==
    ( /\ Validated /\ SignatureMatches /\ HasIssuedAt
      /\ IssuedAt.ok /\ IssuedAt.utcoffset = 0
      /\ call.now <= IssuedUtc + WindowSeconds )
    => Succeeded

C1_Witness ==
    /\ Validated /\ SignatureMatches /\ HasIssuedAt
    /\ IssuedAt.ok /\ IssuedAt.utcoffset = 0
    /\ KeyA \in DOMAIN params /\ params[KeyA] = << "~", "&", "=" >>
    /\ call.now = IssuedUtc + WindowSeconds
    /\ Succeeded

(***************************************************************************)
(* C2                                                                      *)
(***************************************************************************)
\* C2: a signature that differs from the one recomputed over the other keys
\* makes validate_signature raise the invalid-signature error, whatever
\* issuedAt is, and the error message ends with the canonical string.
C2_AuthenticityFirst ==
    ( Validated /\ HasSignature /\ ~SignatureMatches )
    => ( IsInvalidSignature /\ call.msg[2] = Canonical(params) )

C2_Witness ==
    /\ Validated /\ HasSignature /\ ~SignatureMatches
    /\ HasIssuedAt /\ ~IssuedAt.ok
    /\ KeyA \in DOMAIN params
    /\ IsInvalidSignature

(***************************************************************************)
(* C3                                                                      *)
(***************************************************************************)
\* the parameters are an accepted set in which the value of key was old
TamperedFrom(key, old) ==
    /\ key \in DOMAIN params
    /\ old # params[key]
    /\ Accepts(SetItem(params, key, old), call.now)

\* the values key may have had before it was replaced
FormerValues(key) ==
    IF key = SignatureKey THEN { Sign(params, self.app_secret) } ELSE ParamValues(key)

\* the dicts with the keys of p whose values are drawn from ParamValues
SameKeys(p) == { q \in [ DOMAIN p -> UNION { ParamValues(k) : k \in DOMAIN p } ] :
                    \A k \in DOMAIN p : q[k] \in ParamValues(k) }

\* C3: replacing one value of an accepted parameter set by another string is
\* answered by the invalid-signature error, and parameter sets that differ in
\* a value other than the signature have different canonical strings.
C3_TamperSensitivity ==
    Validated =>
      /\ \A key \in DOMAIN params : \A old \in FormerValues(key) :
            TamperedFrom(key, old) => IsInvalidSignature
      /\ \A q \in SameKeys(Without(params, SignatureKey)) :
            q # Without(params, SignatureKey)
                => ValidateQueryString(q, SomeOrder(q)) # call.query_string

C3_Witness ==
    /\ Validated
    /\ TamperedFrom(IssuedAtKey, IssuedAtUtc)
    /\ IsInvalidSignature

(***************************************************************************)
(* C4                                                                      *)
(***************************************************************************)
\* C4: with a matching signature and an issuedAt that denotes the UTC instant
\* T, validate_signature raises the expired error exactly when the current
\* time is later than T + 1 minute, and succeeds otherwise.
C4_ExpiryBoundary ==
    ( Validated /\ SignatureMatches /\ HasIssuedAt /\ IssuedAt.ok )
    => /\ IsExpiredSignature <=> call.now > IssuedUtc + WindowSeconds
       /\ ~IsExpiredSignature => Succeeded

(***************************************************************************)
(* C5                                                                      *)
(***************************************************************************)
\* C5: without a signature key validate_signature raises the
\* missing-signature error, whatever the other parameters are, and nothing
\* but the lookup of the key has run: no canonical string, no hash.
C5_MissingSignature ==
    ( Validated /\ ~HasSignature )
    => ( IsMissingSignature /\ call.steps = << "lookup" >>
         /\ call.query_string = << >> )

C5_Witness ==
    /\ Validated /\ ~HasSignature
    /\ HasIssuedAt /\ ~IssuedAt.ok
    /\ KeyA \in DOMAIN params
    /\ IsMissingSignature

(***************************************************************************)
(* C6                                                                      *)
(***************************************************************************)
\* C6: with a matching signature and an issuedAt that is absent or not
\* parsable, validate_signature fails with a validation error
\* (SignatureValidationError) and with no other kind of error.
C6_MalformedTimestamp ==
    ( Validated /\ SignatureMatches /\ (~HasIssuedAt \/ ~IssuedAt.ok) )
    => IsValidationError

(***************************************************************************)
(* C7                                                                      *)
(***************************************************************************)
\* the keys of p other than "signature", in strictly ascending order
Ascending(p) ==
    LET others == Without(p, SignatureKey)
    IN  CHOOSE ks \in KeyOrders(others) :
            \A i, j \in 1..Len(ks) : i < j => StrLess(ks[i], ks[j])

\* C7: the string signed_request returns lists the keys other than signature
\* in ascending order and, when there is a signature, its pair after them.
C7_SignaturePlacement ==
    call.op = "signed_request" =>
        LET order == IF HasSignature THEN Append(Ascending(params), SignatureKey)
                     ELSE Ascending(params)
        IN  call.value = Join(<< "&" >>,
                              [ i \in 1..Len(order) |-> QuotedPair(params, order[i]) ])

C7_Witness ==
    /\ call.op = "signed_request"
    /\ { KeyA, KeyZ, SignatureKey } \subseteq DOMAIN params
    /\ params[KeyA] = << "1" >> /\ params[KeyZ] = << "1" >>
    /\ params[SignatureKey] = << "s" >>
    /\ IssuedAtKey \notin DOMAIN params
    /\ call.value = << "a", "=", "1", "&", "z", "=", "1", "&",
                       "s", "i", "g", "n", "a", "t", "u", "r", "e", "=", "s" >>

(***************************************************************************)
(* C8                                                                      *)
(***************************************************************************)
\* C8: whatever the order in which the dict lists its keys, signed_request
\* returns the same string and validate_signature hashes the same canonical
\* string.
C8_Determinism ==
    /\ call.op = "signed_request" =>
          \A ks \in KeyOrders(params) : signed_request(params, ks) = call.value
    /\ ( Validated /\ HasSignature ) =>
          \A ks \in KeyOrders(params) :
              ValidateQueryString(params, ks) = call.query_string

C8_Witness ==
    /\ Validated /\ HasSignature
    /\ Cardinality(DOMAIN params) = 4
    /\ call.query_string = Canonical(params)

(***************************************************************************)
(* C9                                                                      *)
(***************************************************************************)
Verbs == { "get", "post", "post_action", "put", "delete" }

MethodOf(op) ==
    IF op = "get" THEN "GET"
    ELSE IF op = "put" THEN "PUT"
    ELSE IF op = "delete" THEN "DELETE"
    ELSE "POST"

\* C9: every call of a verb sends exactly one request with the method of the
\* verb, the path given and the bearer token of the application, and ends as
\* _handle_response ends on the response to that request.
C9_OneRequestPerVerb ==
    call.op \in Verbs =>
        /\ call.sent = 1
        /\ Len(wire) >= 1
        /\ wire[Len(wire)].method = MethodOf(call.op)
        /\ wire[Len(wire)].path = call.path
        /\ wire[Len(wire)].headers.Authorization
              = BearerPrefix \o self.app_id \o << "_" >> \o self.app_secret
        /\ << call.raised, call.result, call.error >>
              = << handle_response(call.status, call.body).raised,
                   handle_response(call.status, call.body).result,
                   handle_response(call.status, call.body).error >>

(***************************************************************************)
(* C10                                                                     *)
(***************************************************************************)
\* C10: for every response, the pair returned has exactly one of result and
\* error equal to None: the decoded body and no error for a status in
\* [200, 300) with a body that decodes, else no result and a code and message,
\* -1001 and "Unexpected Reply" when the body does not decode; nothing is
\* raised.
C10_Normalization ==
    call.sent = 1 =>
        LET decoded == json_loads(call.body)
            success == call.status >= 200 /\ call.status < 300 /\ decoded.ok
        IN  /\ call.raised = "None"
            /\ (call.result = NoJson) # (call.error = NoJson)
            /\ success => ( call.result = decoded.value /\ call.error = NoJson )
            /\ ~success => ( /\ call.result = NoJson
                             /\ call.error.has_code /\ call.error.has_message )
            /\ ~decoded.ok => call.error = UnexpectedReply

====
